---------------------------- MODULE Spec2Model ----------------------------
(***************************************************************************)
(* IR_PID: PID controller for a hot plate (IR_PID.cpp).                    *)
(*                                                                         *)
(* The model follows the single source file: the EEPROM-backed PID gains,  *)
(* updatePID, the heater duty-cycle actuator, the interrupt-driven IR      *)
(* sensor decoder (readBit), the sampler (updateTempSensor) and loop().    *)
(*                                                                         *)
(* Numbers.                                                                *)
(*  - unsigned long (millis and the timestamps taken from it) is 32 bits   *)
(*    wide.  TLC's integers cannot hold 2^32, so a 32-bit value u is       *)
(*    represented by the integer congruent to u modulo 2^32 that lies in   *)
(*    [-2^31, 2^31): the values just below the wrap are the small negative *)
(*    numbers.  All modelled clock values stay within 2^30 of 0, so the    *)
(*    modular difference of two of them is their integer difference.       *)
(*  - unsigned int is 16 bits wide on the AVR target (UIntMod).            *)
(*  - a float is a record [k, v]: k = "num" with v the value, k = "nan",   *)
(*    or k = "inf" with v the sign.  Temperatures, the integral state and  *)
(*    the heat command are held in units of 1/80 (Unit), which makes       *)
(*    t/16.0 - 273.15 exact; gains are held in units of 1.                 *)
(***************************************************************************)
EXTENDS Integers, Sequences, FiniteSets, TLC

(***************************************************************************)
(* Floats                                                                  *)
(***************************************************************************)
Unit == 80

F(n) == [k |-> "num", v |-> n]
NaN == [k |-> "nan", v |-> 0]
Inf(s) == [k |-> "inf", v |-> s]

Sign(n) == IF n > 0 THEN 1 ELSE IF n < 0 THEN -1 ELSE 0

IsNum(a) == a.k = "num"

\* a + b
FAdd(a, b) ==
    IF a.k = "nan" \/ b.k = "nan" THEN NaN
    ELSE IF a.k = "inf" /\ b.k = "inf" THEN (IF a.v = b.v THEN a ELSE NaN)
    ELSE IF a.k = "inf" THEN a
    ELSE IF b.k = "inf" THEN b
    ELSE F(a.v + b.v)

FNeg(a) == IF a.k = "nan" THEN NaN ELSE [k |-> a.k, v |-> 0 - a.v]

\* a - b
FSub(a, b) == FAdd(a, FNeg(b))

\* g * x, g a gain (units of 1), x in units of 1/Unit
FMul(g, x) ==
    IF g.k = "nan" \/ x.k = "nan" THEN NaN
    ELSE IF g.k = "inf" \/ x.k = "inf"
         THEN (IF Sign(g.v) * Sign(x.v) = 0 THEN NaN ELSE Inf(Sign(g.v) * Sign(x.v)))
    ELSE F(g.v * x.v)

\* magnitude division rounding toward zero
DivTrunc(n, d) == IF n >= 0 THEN n \div d ELSE 0 - ((0 - n) \div d)

\* c / g in units of 1/Unit, c a constant and g a gain, both in units of 1.
\* A zero divisor gives an infinity, as the target's float division does.
FDivConst(c, g) ==
    IF g.k = "nan" THEN NaN
    ELSE IF g.k = "inf" THEN F(0)
    ELSE IF g.v = 0 THEN Inf(Sign(c))
    ELSE F(Sign(g.v) * DivTrunc(c * Unit, g.v * Sign(g.v)))

\* a < b ; every comparison with a NaN is false
FLt(a, b) ==
    /\ a.k # "nan"
    /\ b.k # "nan"
    /\ IF a.k = "inf" THEN (a.v < 0 /\ ~(b.k = "inf" /\ b.v < 0))
       ELSE IF b.k = "inf" THEN b.v > 0
       ELSE a.v < b.v

FLe(a, b) == a.k # "nan" /\ b.k # "nan" /\ (a = b \/ FLt(a, b))
FGt(a, b) == FLt(b, a)
FGe(a, b) == FLe(b, a)

(***************************************************************************)
(* The 4-byte encoding of a float (IEEE 754 single, least significant     *)
(* byte first).  u is the unit the model holds the value in (1 or Unit).   *)
(* The values the model stores are multiples of 1/16 below 2^24, which the *)
(* encoding holds exactly; anything finer is cut off.                      *)
(***************************************************************************)
RECURSIVE Log2(_)
\* floor(log2 n) for n >= 1
Log2(n) == IF n < 2 THEN 0 ELSE 1 + Log2(n \div 2)

RECURSIVE OddPart(_)
\* u without its factors of 2
OddPart(u) == IF u % 2 = 0 THEN OddPart(u \div 2) ELSE u

\* bytes of sign s, biased exponent e and 23-bit fraction m
PackFloat(s, e, m) ==
    <<m % 256, (m \div 256) % 256, (e % 2) * 128 + m \div 65536, s * 128 + e \div 2>>

FloatBytes_BigEndian(f, u) ==
    LET s == IF f.v < 0 THEN 1 ELSE 0
        w == (IF f.v < 0 THEN 0 - f.v ELSE f.v) \div OddPart(u)
        l == Log2(w)
        b == PackFloat(s, 127 + l - Log2(u \div OddPart(u)), w * 2 ^ (23 - l) - 2 ^ 23)
    IN  IF f.k = "nan" THEN <<255, 255, 255, 255>>
        ELSE IF f.k = "inf" THEN <<(IF f.v < 0 THEN 255 ELSE 127), 128, 0, 0>>
        ELSE IF w = 0 THEN <<0, 0, 0, 0>>
        ELSE <<b[4], b[3], b[2], b[1]>>

\* the object representation of float f as the target lays it out
FloatBytes(f, u) ==
    LET s == IF f.v < 0 THEN 1 ELSE 0
        w == (IF f.v < 0 THEN 0 - f.v ELSE f.v) \div OddPart(u)
        l == Log2(w)
    IN  IF f.k = "nan" THEN <<255, 255, 255, 255>>
        ELSE IF f.k = "inf" THEN <<0, 0, 128, (IF f.v < 0 THEN 255 ELSE 127)>>
        ELSE IF w = 0 THEN <<0, 0, 0, 0>>
        ELSE PackFloat(s, 127 + l - Log2(u \div OddPart(u)), w * 2 ^ (23 - l) - 2 ^ 23)

\* the float whose object representation is the four bytes b
BytesFloat(b, u) ==
    LET s == b[4] \div 128
        e == (b[4] % 128) * 2 + b[3] \div 128
        m == (b[3] % 128) * 65536 + b[2] * 256 + b[1]
        sig == (2 ^ 23 + m) * OddPart(u)
        sh == 150 - e - Log2(u \div OddPart(u))
        mag == IF sh > 30 THEN 0
               ELSE IF sh >= 0 THEN sig \div (2 ^ sh)
               ELSE sig * 2 ^ (0 - sh)
    IN  IF e = 255 THEN (IF m = 0 THEN Inf(1 - 2 * s) ELSE NaN)
        ELSE IF e = 0 THEN F(0)
        ELSE F((1 - 2 * s) * mag)

(***************************************************************************)
(* 32-bit unsigned clock values (see the header)                           *)
(***************************************************************************)
\* a - b modulo 2^32
USub(a, b) == a - b

\* unsigned a < b
ULt(a, b) == IF (a < 0) = (b < 0) THEN a < b ELSE b < 0

\* unsigned d >= n and d > n, for a constant 0 <= n < 2^31
UGeConst(d, n) == d < 0 \/ d >= n
UGtConst(d, n) == d < 0 \/ d > n

\* (float) d >= f, with d an unsigned long in milliseconds and f in 1/Unit
UGeFloat(d, f) ==
    /\ f.k # "nan"
    /\ IF f.k = "inf" THEN f.v < 0
       ELSE d < 0 \/ d * Unit >= f.v

UIntMod == 65536

(***************************************************************************)
(* Program constants                                                       *)
(***************************************************************************)
PGAIN_ADR == 0
IGAIN_ADR == 4
DGAIN_ADR == 8
TEMP_SETTING_ADR == 12
PID_UPDATE_INTERVAL == 200
WINDUP_GUARD_GAIN == 100
HeatWindow == 1000
MaxPower == 1000
SensorTimeout == 1000
TimeoutLimit == 20
Terminator == 13
TagObject == 76
TagAmbient == 102
\* temp = -127.0 at start, in units of 1/Unit
TempSentinel == (0 - 127) * Unit

VARIABLES
    now,                    \* millis()
    pc,                     \* position of the main context
    eeprom,                 \* the EEPROM bytes 0..15
    pgain, igain, dgain, iState, lastTemp,
    windupGaurd,            \* history: the local windupGaurd of the last updatePID
    targetTemp, heatPower, lastPIDTime,
    heatcycles, heaterState, heatLastTime,
    nbits, hexbyte, read_byte, byte_ready, message, nbytes, message_waiting,
    last_time, consectutive_timeouts, temp, ambient, latestReading,
    delta,
    t_hi,                   \* message[1] as read by updateTempSensor
    line,                   \* the sensor: bits still to be clocked out
    sent,                   \* the sensor: the frame being clocked out
    nsent,                  \* the sensor: the number of frames started
    ranPID,                 \* history: updatePID ran in this iteration of loop()
    tripped,                \* history: the timeout count has exceeded the limit
                            \* since the last message was consumed
    info                    \* history: what the last clock edge found

pidVars == <<eeprom, pgain, igain, dgain, iState, lastTemp, windupGaurd, targetTemp,
             delta>>
heaterVars == <<heatcycles, heaterState, heatLastTime>>
decoderVars == <<nbits, hexbyte, read_byte, byte_ready, message, nbytes, message_waiting>>
samplerVars == <<last_time, consectutive_timeouts, temp, ambient, latestReading, t_hi>>
history == <<ranPID, tripped>>
vars == <<now, pc, pidVars, heatPower, lastPIDTime, heaterVars, decoderVars,
          samplerVars, line, sent, nsent, ranPID, tripped, info>>

(***************************************************************************)
(* HeaterControl                                                           *)
(***************************************************************************)
\* setHeatPowerPercentage: the value stored in heatcycles
ClampPower(power) ==
    LET p1 == IF FLe(power, F(0)) THEN F(0) ELSE power
    IN  IF FGe(p1, F(MaxPower * Unit)) THEN F(MaxPower * Unit) ELSE p1

BeginCycle_Short(cur, last) ==
    UGeConst(USub(cur, last), HeatWindow \div 2) \/ ULt(cur, last)

\* updateHeater: the condition that begins a cycle
BeginCycle(cur, last) == UGeConst(USub(cur, last), HeatWindow) \/ ULt(cur, last)

EndOnTime_Strict(cur, last, cycles) ==
    IsNum(cycles) /\ (USub(cur, last) < 0 \/ USub(cur, last) * Unit > cycles.v)

\* updateHeater: the condition that ends the on-time
EndOnTime(cur, last, cycles) == UGeFloat(USub(cur, last), cycles)

\* updateHeater: the output after the first if statement
PinAfterBegin == IF BeginCycle(now, heatLastTime) THEN 1 ELSE heaterState

\* updateHeater, with millis() = now
updateHeater ==
    LET cur == now
        begin == BeginCycle(cur, heatLastTime)
        last == IF begin THEN cur ELSE heatLastTime
        on == IF begin THEN 1 ELSE heaterState
    IN  /\ heatLastTime' = last
        /\ heaterState' = IF EndOnTime(cur, last, heatcycles) THEN 0 ELSE on
        /\ UNCHANGED heatcycles

\* setHeatPowerPercentage
setHeatPowerPercentage(power) ==
    /\ heatcycles' = ClampPower(power)
    /\ UNCHANGED <<heaterState, heatLastTime>>

(***************************************************************************)
(* Temperature sensor: the clock-edge interrupt routine                    *)
(***************************************************************************)
ShiftIn_LsbFirst(h, bit) == h \div 2 + 128 * bit

\* hexbyte = (hexbyte << 1) | bit, hexbyte being a byte
ShiftIn(h, bit) == (h * 2 + bit) % 256

StoreIndex_Always(byte, waiting, n) ==
    IF byte # Terminator /\ n < 4 THEN n ELSE -1

\* the byte index a completed byte is stored at, or -1 when it is dropped
StoreIndex(byte, waiting, n) ==
    IF byte # Terminator /\ waiting = 0 /\ n < 4 THEN n ELSE -1

\* nbytes after a completed byte
NextNBytes(byte, waiting, n) ==
    IF byte = Terminator THEN 0
    ELSE IF waiting = 0 THEN n + 1
    ELSE n

NextWaiting_FullOnly(byte, waiting, n) ==
    IF byte = Terminator /\ n = 4 THEN 1 ELSE waiting

\* message_waiting after a completed byte, nbytes being n
NextWaiting(byte, waiting, n) == IF byte = Terminator THEN 1 ELSE waiting

\* message[idx] = byte.  A store past the end of the array shows as a cell
\* outside 0..3.
Store(m, idx, byte) ==
    [i \in DOMAIN m \cup {idx} |-> IF i = idx THEN byte ELSE m[i]]

\* readBit, val being the level of the data line (1 = HIGH)
readBit(val) ==
    LET h == ShiftIn(hexbyte, val)
        idx == StoreIndex(h, message_waiting, nbytes)
    IN  IF nbits + 1 = 8
        THEN /\ read_byte' = IF byte_ready = 0 THEN h ELSE read_byte
             /\ byte_ready' = 1
             /\ nbytes' = NextNBytes(h, message_waiting, nbytes)
             /\ message_waiting' = NextWaiting(h, message_waiting, nbytes)
             /\ message' = IF idx >= 0 THEN Store(message, idx, h) ELSE message
             /\ hexbyte' = 0
             /\ nbits' = 0
        ELSE /\ nbits' = nbits + 1
             /\ hexbyte' = h
             /\ UNCHANGED <<read_byte, byte_ready, message, nbytes, message_waiting>>

(***************************************************************************)
(* The sensor: frames clocked out most significant bit first               *)
(***************************************************************************)
\* nbytes is an int that readBit only ever increments between resets: the
\* sensor is held once it reaches this bound
NBytesCap == 6

ByteBits(b) == [i \in 1..8 |-> (b \div (2 ^ (8 - i))) % 2]

RECURSIVE FrameBits(_)
FrameBits(f) == IF f = <<>> THEN <<>> ELSE ByteBits(Head(f)) \o FrameBits(Tail(f))

\* the sensor starts to clock out frame f, its limit-th frame at most
SensorSend(f, limit) ==
    /\ line = <<>>
    /\ nsent < limit
    /\ line' = FrameBits(f)
    /\ sent' = f
    /\ nsent' = nsent + 1
    /\ UNCHANGED <<now, pc, pidVars, heatPower, lastPIDTime, heaterVars, decoderVars,
                   samplerVars, history, info>>

\* one falling edge of the sensor clock: the interrupt runs readBit
ClockEdge ==
    /\ line # <<>>
    /\ nbytes < NBytesCap
    /\ readBit(Head(line))
    /\ line' = Tail(line)
    /\ info' = [op |-> "readBit", nbits |-> nbits, nbytes |-> nbytes,
                waiting |-> message_waiting, byte |-> ShiftIn(hexbyte, Head(line))]
    /\ UNCHANGED <<now, pc, pidVars, heatPower, lastPIDTime, heaterVars,
                   samplerVars, sent, nsent, history>>

(***************************************************************************)
(* PID                                                                     *)
(***************************************************************************)
\* readFloat(address): the float in the four bytes at address
readFloat(ee, address, u) ==
    BytesFloat(<<ee[address], ee[address + 1], ee[address + 2], ee[address + 3]>>, u)

\* writeFloat(value, address): the EEPROM after the four bytes are written
writeFloat(ee, value, address, u) ==
    [a \in DOMAIN ee |->
        IF a \in address..(address + 3) THEN FloatBytes(value, u)[a - address + 1]
        ELSE ee[a]]

\* updatePID: windupGaurd = WINDUP_GUARD_GAIN / igain
PIDWindup == FDivConst(WINDUP_GUARD_GAIN, igain)

\* updatePID: iState after the windup guard
PIDIState(target, cur) ==
    LET error == FSub(target, cur)
        sum == FAdd(iState, error)
        guard == PIDWindup
    IN  IF FGt(sum, guard) THEN guard
        ELSE IF FLt(sum, FNeg(guard)) THEN FNeg(guard)
        ELSE sum

PIDOutput_DerivativeAdded(target, cur) ==
    LET error == FSub(target, cur)
        pTerm == FMul(pgain, error)
        iTerm == FMul(igain, PIDIState(target, cur))
        dTerm == FMul(dgain, FSub(cur, lastTemp))
    IN  FAdd(FAdd(pTerm, iTerm), dTerm)

\* updatePID: the value returned
PIDOutput(target, cur) ==
    LET error == FSub(target, cur)
        pTerm == FMul(pgain, error)
        iTerm == FMul(igain, PIDIState(target, cur))
        dTerm == FMul(dgain, FSub(cur, lastTemp))
    IN  FSub(FAdd(pTerm, iTerm), dTerm)

\* the time from which the next PID update is counted, after the rollover check
PIDBase(cur) == IF ULt(cur, lastPIDTime) THEN 0 ELSE lastPIDTime

\* loop(): the PID update is due
PIDDue(cur) == UGtConst(USub(cur, lastPIDTime), PID_UPDATE_INTERVAL)

Interlock_Late(n) == n > TimeoutLimit + 1

\* loop(): the safety override applies
Interlock(n) == n > TimeoutLimit

(***************************************************************************)
(* Temperature sensor: updateTempSensor                                    *)
(***************************************************************************)
\* int t = message[1]<<8 | message[2], int being 16 bits
RawReading(hi, lo) ==
    LET u == hi * 256 + lo
    IN  IF u >= 32768 THEN u - 65536 ELSE u

\* t/16.0 - 273.15 in units of 1/Unit
Calibrate(t) == F(5 * t - 21852)

TimedOut_Early(cur, last) == UGeConst(USub(cur, last), SensorTimeout)

getLastTemp_Live == temp

\* getLastTemp(): the value returned
getLastTemp == latestReading

\* the timeout test of updateTempSensor
TimedOut(cur, last) == UGtConst(USub(cur, last), SensorTimeout)

\* consectutive_timeouts++
NextTimeouts(n) == (n + 1) % UIntMod

(***************************************************************************)
(* loop(), one statement of the main context at a time.  The interrupt     *)
(* routine may run between any two of these steps.                         *)
(***************************************************************************)
mainOnly == <<now, line, sent, nsent, info>>

\* updateSerialInterface with no character available
L_serial ==
    /\ pc = "serial"
    /\ pc' = "ts_test"
    /\ ranPID' = FALSE
    /\ UNCHANGED <<mainOnly, pidVars, heatPower, lastPIDTime, heaterVars,
                   decoderVars, samplerVars, tripped>>

\* if (message_waiting == 1)
L_ts_test ==
    /\ pc = "ts_test"
    /\ pc' = IF message_waiting = 1 THEN "ts_stamp" ELSE "ts_timeout"
    /\ UNCHANGED <<mainOnly, pidVars, heatPower, lastPIDTime, heaterVars,
                   decoderVars, samplerVars, history>>

L_ts_stamp_KeepCount ==
    /\ pc = "ts_stamp"
    /\ last_time' = now
    /\ pc' = "ts_tag1"
    /\ UNCHANGED <<mainOnly, pidVars, heatPower, lastPIDTime, heaterVars,
                   decoderVars, consectutive_timeouts, temp, ambient, latestReading,
                   t_hi, history>>

\* last_time = millis(); consectutive_timeouts = 0
L_ts_stamp ==
    /\ pc = "ts_stamp"
    /\ last_time' = now
    /\ consectutive_timeouts' = 0
    /\ tripped' = FALSE
    /\ pc' = "ts_tag1"
    /\ UNCHANGED <<mainOnly, pidVars, heatPower, lastPIDTime, heaterVars,
                   decoderVars, temp, ambient, latestReading, t_hi, ranPID>>

\* if (message[0] == 0x4c)
L_ts_tag1 ==
    /\ pc = "ts_tag1"
    /\ pc' = IF message[0] = TagObject THEN "ts_obj_hi" ELSE "ts_tag2"
    /\ UNCHANGED <<mainOnly, pidVars, heatPower, lastPIDTime, heaterVars,
                   decoderVars, samplerVars, history>>

L_ts_tag2_AnyTag ==
    /\ pc = "ts_tag2"
    /\ pc' = "ts_amb_hi"
    /\ UNCHANGED <<mainOnly, pidVars, heatPower, lastPIDTime, heaterVars,
                   decoderVars, samplerVars, history>>

\* else if (message[0] == 0x66)
L_ts_tag2 ==
    /\ pc = "ts_tag2"
    /\ pc' = IF message[0] = TagAmbient THEN "ts_amb_hi" ELSE "ts_clear"
    /\ UNCHANGED <<mainOnly, pidVars, heatPower, lastPIDTime, heaterVars,
                   decoderVars, samplerVars, history>>

\* the read of message[1]
L_ts_hi ==
    /\ pc \in {"ts_obj_hi", "ts_amb_hi"}
    /\ t_hi' = message[1]
    /\ pc' = IF pc = "ts_obj_hi" THEN "ts_obj_lo" ELSE "ts_amb_lo"
    /\ UNCHANGED <<mainOnly, pidVars, heatPower, lastPIDTime, heaterVars,
                   decoderVars, last_time, consectutive_timeouts, temp, ambient,
                   latestReading, history>>

\* the read of message[2]; temp or ambient = t/16.0 - 273.15
L_ts_lo ==
    /\ pc \in {"ts_obj_lo", "ts_amb_lo"}
    /\ temp' = IF pc = "ts_obj_lo" THEN Calibrate(RawReading(t_hi, message[2])) ELSE temp
    /\ ambient' = IF pc = "ts_amb_lo" THEN Calibrate(RawReading(t_hi, message[2]))
                  ELSE ambient
    /\ pc' = "ts_clear"
    /\ UNCHANGED <<mainOnly, pidVars, heatPower, lastPIDTime, heaterVars,
                   decoderVars, last_time, consectutive_timeouts, latestReading,
                   t_hi, history>>

\* message_waiting = 0
L_ts_clear ==
    /\ pc = "ts_clear"
    /\ message_waiting' = 0
    /\ pc' = "ts_timeout"
    /\ UNCHANGED <<mainOnly, pidVars, heatPower, lastPIDTime, heaterVars,
                   nbits, hexbyte, read_byte, byte_ready, message, nbytes,
                   samplerVars, history>>

\* if (millis() - last_time > 1000)
L_ts_timeout ==
    /\ pc = "ts_timeout"
    /\ pc' = IF TimedOut(now, last_time) THEN "to_nbits" ELSE "pid_wrap"
    /\ UNCHANGED <<mainOnly, pidVars, heatPower, lastPIDTime, heaterVars,
                   decoderVars, samplerVars, history>>

\* nbits = 0
L_to_nbits ==
    /\ pc = "to_nbits"
    /\ nbits' = 0
    /\ pc' = "to_nbytes"
    /\ UNCHANGED <<mainOnly, pidVars, heatPower, lastPIDTime, heaterVars,
                   hexbyte, read_byte, byte_ready, message, nbytes, message_waiting,
                   samplerVars, history>>

\* nbytes = 0
L_to_nbytes ==
    /\ pc = "to_nbytes"
    /\ nbytes' = 0
    /\ pc' = "to_hexbyte"
    /\ UNCHANGED <<mainOnly, pidVars, heatPower, lastPIDTime, heaterVars,
                   nbits, hexbyte, read_byte, byte_ready, message, message_waiting,
                   samplerVars, history>>

\* hexbyte = 0
L_to_hexbyte ==
    /\ pc = "to_hexbyte"
    /\ hexbyte' = 0
    /\ pc' = "to_waiting"
    /\ UNCHANGED <<mainOnly, pidVars, heatPower, lastPIDTime, heaterVars,
                   nbits, read_byte, byte_ready, message, nbytes, message_waiting,
                   samplerVars, history>>

\* message_waiting = 0
L_to_waiting ==
    /\ pc = "to_waiting"
    /\ message_waiting' = 0
    /\ pc' = "to_ready"
    /\ UNCHANGED <<mainOnly, pidVars, heatPower, lastPIDTime, heaterVars,
                   nbits, hexbyte, read_byte, byte_ready, message, nbytes,
                   samplerVars, history>>

\* byte_ready = 0
L_to_ready ==
    /\ pc = "to_ready"
    /\ byte_ready' = 0
    /\ pc' = "to_stamp"
    /\ UNCHANGED <<mainOnly, pidVars, heatPower, lastPIDTime, heaterVars,
                   nbits, hexbyte, read_byte, message, nbytes, message_waiting,
                   samplerVars, history>>

\* last_time = millis(); consectutive_timeouts++
L_to_stamp ==
    /\ pc = "to_stamp"
    /\ last_time' = now
    /\ consectutive_timeouts' = NextTimeouts(consectutive_timeouts)
    /\ tripped' = (tripped \/ consectutive_timeouts + 1 > TimeoutLimit)
    /\ pc' = "pid_wrap"
    /\ UNCHANGED <<mainOnly, pidVars, heatPower, lastPIDTime, heaterVars,
                   decoderVars, temp, ambient, latestReading, t_hi, ranPID>>

\* if (millis() < lastPIDTime) lastPIDTime = 0
L_pid_wrap ==
    /\ pc = "pid_wrap"
    /\ lastPIDTime' = PIDBase(now)
    /\ pc' = "pid_test"
    /\ UNCHANGED <<mainOnly, pidVars, heatPower, heaterVars, decoderVars,
                   samplerVars, history>>

\* if ((millis() - lastPIDTime) > PID_UPDATE_INTERVAL) { ... }
\* with getFreshTemp, updatePID and setHeatPowerPercentage
L_pid_test ==
    /\ pc = "pid_test"
    /\ pc' = "interlock"
    /\ IF PIDDue(now)
       THEN /\ lastPIDTime' = lastPIDTime + PID_UPDATE_INTERVAL
            /\ latestReading' = temp
            /\ heatPower' = PIDOutput(targetTemp, temp)
            /\ iState' = PIDIState(targetTemp, temp)
            /\ lastTemp' = temp
            /\ windupGaurd' = PIDWindup
            /\ setHeatPowerPercentage(PIDOutput(targetTemp, temp))
            /\ ranPID' = TRUE
       ELSE UNCHANGED <<lastPIDTime, latestReading, heatPower, iState, lastTemp,
                        windupGaurd, heaterVars, ranPID>>
    /\ UNCHANGED <<mainOnly, eeprom, pgain, igain, dgain, targetTemp, delta,
                   decoderVars, last_time, consectutive_timeouts, temp, ambient, t_hi,
                   tripped>>

\* if (consectutive_timeouts>20) setHeatPowerPercentage(0)
L_interlock ==
    /\ pc = "interlock"
    /\ pc' = "heater"
    /\ IF Interlock(consectutive_timeouts)
       THEN setHeatPowerPercentage(F(0))
       ELSE UNCHANGED heaterVars
    /\ UNCHANGED <<mainOnly, pidVars, heatPower, lastPIDTime, decoderVars,
                   samplerVars, history>>

\* updateHeater()
L_heater ==
    /\ pc = "heater"
    /\ pc' = "serial"
    /\ updateHeater
    /\ UNCHANGED <<mainOnly, pidVars, heatPower, lastPIDTime, decoderVars,
                   samplerVars, history>>

\* the clock: d milliseconds pass, up to the time limit
Tick(d, limit) ==
    /\ now + d <= limit
    /\ now' = now + d
    /\ UNCHANGED <<pc, pidVars, heatPower, lastPIDTime, heaterVars, decoderVars,
                   samplerVars, line, sent, nsent, history, info>>

(***************************************************************************)
(* The state after setup()                                                 *)
(***************************************************************************)
Slots == {PGAIN_ADR, IGAIN_ADR, DGAIN_ADR, TEMP_SETTING_ADR}

\* an erased EEPROM: every byte 0xFF, which reads as a NaN
EepromErased == [a \in Slots |-> NaN]

\* the values the 'R' command stores
EepromReset ==
    (PGAIN_ADR :> F(30)) @@ (IGAIN_ADR :> F(0)) @@ (DGAIN_ADR :> F(0))
    @@ (TEMP_SETTING_ADR :> F(200 * Unit))

\* a tuned controller
EepromTuned ==
    (PGAIN_ADR :> F(2)) @@ (IGAIN_ADR :> F(1)) @@ (DGAIN_ADR :> F(1))
    @@ (TEMP_SETTING_ADR :> F((0 - 125) * Unit))

\* the unit the model holds the float of a slot in
SlotUnit(a) == IF a = TEMP_SETTING_ADR THEN Unit ELSE 1

\* the EEPROM bytes that hold the floats ee, one per slot
Image(ee) ==
    [a \in 0..15 |->
        FloatBytes(ee[4 * (a \div 4)], SlotUnit(4 * (a \div 4)))[(a % 4) + 1]]

Setup(ee, t0, start, frame) ==
    /\ now = t0
    /\ pc = start
    /\ eeprom = Image(ee)
    /\ pgain = readFloat(eeprom, PGAIN_ADR, 1)
    /\ igain = readFloat(eeprom, IGAIN_ADR, 1)
    /\ dgain = readFloat(eeprom, DGAIN_ADR, 1)
    /\ targetTemp = readFloat(eeprom, TEMP_SETTING_ADR, Unit)
    /\ iState = F(0)
    /\ lastTemp = F(0)
    /\ windupGaurd = [k |-> "unset", v |-> 0]
    /\ heatPower = F(0)
    /\ lastPIDTime = t0
    /\ heatcycles = F(0)
    /\ heaterState = 0
    /\ heatLastTime = 0
    /\ nbits = 0
    /\ hexbyte = 0
    /\ read_byte = 0
    /\ byte_ready = 0
    /\ message = [i \in 0..3 |-> 0]
    /\ nbytes = 0
    /\ message_waiting = 0
    /\ last_time = 0
    /\ consectutive_timeouts = 0
    /\ temp = F(TempSentinel)
    /\ ambient = F(0)
    /\ latestReading = F(0)
    /\ delta = 1
    /\ t_hi = 0
    /\ line = FrameBits(frame)
    /\ sent = frame
    /\ nsent = IF frame = <<>> THEN 0 ELSE 1
    /\ ranPID = FALSE
    /\ tripped = FALSE
    /\ info = [op |-> "none"]

\* the positions of updateTempSensor between the test of message_waiting
\* and the statement that clears it
Consuming ==
    {"ts_stamp", "ts_tag1", "ts_tag2", "ts_obj_hi", "ts_obj_lo", "ts_amb_hi",
     "ts_amb_lo", "ts_clear"}

\* the steps of loop() that consume a waiting message
Consume == L_ts_stamp \/ L_ts_tag1 \/ L_ts_tag2 \/ L_ts_hi \/ L_ts_lo \/ L_ts_clear

\* the other steps of updateTempSensor
Sampler ==
    \/ L_ts_test \/ L_ts_timeout \/ L_to_nbits \/ L_to_nbytes
    \/ L_to_hexbyte \/ L_to_waiting \/ L_to_ready \/ L_to_stamp

\* the steps of loop() outside updateTempSensor
Control == L_serial \/ L_pid_wrap \/ L_pid_test \/ L_interlock \/ L_heater

Cycle == Sampler \/ Control

(***************************************************************************)
(* SpecHeater: the actuator alone.  setHeatPowerPercentage(250), then      *)
(* updateHeater() at every millisecond, the clock starting HeaterTestLead  *)
(* milliseconds before it wraps to 0.                                      *)
(***************************************************************************)
HeaterTestLead == 1500
HeaterTestSpan == 2500
HeaterTestPower == 250

T_set ==
    /\ pc = "t_set"
    /\ setHeatPowerPercentage(F(HeaterTestPower * Unit))
    /\ pc' = "t_call"
    /\ UNCHANGED <<mainOnly, pidVars, heatPower, lastPIDTime, decoderVars,
                   samplerVars, history>>

T_call ==
    /\ pc = "t_call"
    /\ updateHeater
    /\ pc' = "t_wait"
    /\ UNCHANGED <<mainOnly, pidVars, heatPower, lastPIDTime, decoderVars,
                   samplerVars, history>>

T_wait ==
    /\ pc = "t_wait"
    /\ now < HeaterTestSpan
    /\ now' = now + 1
    /\ pc' = "t_call"
    /\ UNCHANGED <<pidVars, heatPower, lastPIDTime, heaterVars, decoderVars,
                   samplerVars, line, sent, nsent, history, info>>

InitHeater == Setup(EepromReset, 0 - HeaterTestLead, "t_set", <<>>)
NextHeater == T_set \/ T_call \/ T_wait
SpecHeater == InitHeater /\ [][NextHeater]_vars

(***************************************************************************)
(* SpecFrame: the decoder alone, from its reset state, fed one frame of    *)
(* four data bytes and the terminator.                                     *)
(***************************************************************************)
ByteSamples == {0, 12, 14, 26, 76, 102, 134, 255}

InitFrame ==
    \E b0, b1, b2, b3 \in ByteSamples :
        Setup(EepromReset, 0, "idle", <<b0, b1, b2, b3, Terminator>>)
NextFrame == ClockEdge
SpecFrame == InitFrame /\ [][NextFrame]_vars

(***************************************************************************)
(* SpecSilence: loop() with a sensor that sends nothing, from each of the  *)
(* EEPROM contents.  Time passes between the iterations of loop(), in      *)
(* steps of SilenceTick.                                                   *)
(***************************************************************************)
SilenceTick == 1001
SilenceEnd == 23023

InitSilence ==
    \E ee \in {EepromErased, EepromReset, EepromTuned} : Setup(ee, 0, "serial", <<>>)
NextSilence == Cycle \/ (pc = "serial" /\ Tick(SilenceTick, SilenceEnd))
SpecSilence == InitSilence /\ [][NextSilence]_vars

(***************************************************************************)
(* SpecSensor: the sensor code alone.  updateTempSensor is called over and *)
(* over, the sensor clocks out frames, and the interrupt routine runs      *)
(* between any two statements of updateTempSensor.                         *)
(***************************************************************************)
FrameObject == <<TagObject, 16, 0, 92, Terminator>>
FrameOther == <<83, 1, 2, 86, Terminator>>
FrameShort == <<TagAmbient, Terminator>>
FrameLong == <<TagObject, 16, 0, 92, 1, Terminator>>
Frames == {FrameObject, FrameOther, FrameShort, FrameLong}

SensorTick == 1001
SensorEnd == 1001
SensorFrames == 1

\* updateTempSensor returns and is called again
S_again ==
    /\ pc = "pid_wrap"
    /\ pc' = "ts_test"
    /\ UNCHANGED <<mainOnly, pidVars, heatPower, lastPIDTime, heaterVars,
                   decoderVars, samplerVars, history>>

InitSensor == Setup(EepromReset, 0, "ts_test", <<>>)
NextSensor ==
    \/ Sampler
    \/ Consume
    \/ S_again
    \/ ClockEdge
    \/ \E f \in Frames : SensorSend(f, SensorFrames)
    \/ Tick(SensorTick, SensorEnd)
SpecSensor == InitSensor /\ [][NextSensor]_vars

(***************************************************************************)
(* SpecLongSilence: loop() with a sensor that never sends, run once every  *)
(* SilenceTick milliseconds for LongSilenceRuns iterations, from the       *)
(* EEPROM contents the 'R' command stores.                                 *)
(***************************************************************************)
LongSilenceRuns == 65540

\* SilenceTick milliseconds pass between two iterations of loop()
Pause ==
    /\ pc = "serial"
    /\ now = last_time
    /\ Tick(SilenceTick, LongSilenceRuns * SilenceTick)

InitLongSilence == Setup(EepromReset, 0, "serial", <<>>)
NextLongSilence == (~(pc = "serial" /\ now = last_time) /\ Cycle) \/ Pause
SpecLongSilence == InitLongSilence /\ [][NextLongSilence]_vars

(***************************************************************************)
(* SpecActuator: the actuator alone under any sequence of calls of         *)
(* setHeatPowerPercentage and updateHeater, the clock starting             *)
(* ActuatorLead milliseconds before it wraps to 0.                         *)
(***************************************************************************)
ActuatorLead == 1000
ActuatorEnd == 1510
ActuatorTickA == 250
ActuatorTickB == 251
PowerSamples == {NaN, F((0 - 5) * Unit), F(HeaterTestPower * Unit), F(5000 * Unit)}

A_set(p) ==
    /\ pc = "idle"
    /\ setHeatPowerPercentage(p)
    /\ info' = [op |-> "set", power |-> p]
    /\ UNCHANGED <<now, pc, line, sent, nsent, pidVars, heatPower, lastPIDTime,
                   decoderVars, samplerVars, history>>

A_update ==
    /\ pc = "idle"
    /\ updateHeater
    /\ info' = [op |-> "update", at |-> now, pin |-> PinAfterBegin]
    /\ UNCHANGED <<now, pc, line, sent, nsent, pidVars, heatPower, lastPIDTime,
                   decoderVars, samplerVars, history>>

InitActuator == Setup(EepromReset, 0 - ActuatorLead, "idle", <<>>)
NextActuator ==
    \/ \E p \in PowerSamples : A_set(p)
    \/ A_update
    \/ \E d \in {ActuatorTickA, ActuatorTickB} : Tick(d, ActuatorEnd)
SpecActuator == InitActuator /\ [][NextActuator]_vars

(***************************************************************************)
(* SpecTimeout: updateTempSensor called over and over while the sensor,    *)
(* after clocking out part of a frame at time 0, stays silent.             *)
(***************************************************************************)
TimeoutTickA == 500
TimeoutTickB == 501
TimeoutEnd == 3010
PartialFrame == <<TagObject, 16>>
PartialBits == 11

\* the sensor stops in the middle of a byte
E_partial ==
    /\ now = 0
    /\ Len(line) > 16 - PartialBits
    /\ ClockEdge

InitTimeout == Setup(EepromReset, 0, "ts_test", PartialFrame)
NextTimeout ==
    \/ Sampler
    \/ S_again
    \/ E_partial
    \/ \E d \in {TimeoutTickA, TimeoutTickB} : Tick(d, TimeoutEnd)
SpecTimeout == InitTimeout /\ [][NextTimeout]_vars

(***************************************************************************)
(* The serial commands that change the gains and the target temperature    *)
(***************************************************************************)
Commands == {"P", "p", "I", "i", "D", "d", "T", "t"}

\* the in-memory float that belongs to the EEPROM slot at address a
Memory(a) ==
    IF a = PGAIN_ADR THEN pgain
    ELSE IF a = IGAIN_ADR THEN igain
    ELSE IF a = DGAIN_ADR THEN dgain
    ELSE targetTemp

\* the slot that character c adjusts
KeySlot(c) ==
    IF c \in {"P", "p"} THEN PGAIN_ADR
    ELSE IF c \in {"I", "i"} THEN IGAIN_ADR
    ELSE IF c \in {"D", "d"} THEN DGAIN_ADR
    ELSE TEMP_SETTING_ADR

\* the argument the command c passes to its setter: get() + delta for the
\* upper-case character, get() - delta for the lower-case one
SetterArg(c) ==
    IF c \in {"P", "I", "D", "T"}
    THEN FAdd(Memory(KeySlot(c)), F(delta * SlotUnit(KeySlot(c))))
    ELSE FSub(Memory(KeySlot(c)), F(delta * SlotUnit(KeySlot(c))))

\* setP, setI, setD and setTargetTemp: the variable of slot a is assigned and
\* the value written to the slot
SetValue(a, x) ==
    /\ pgain' = IF a = PGAIN_ADR THEN x ELSE pgain
    /\ igain' = IF a = IGAIN_ADR THEN x ELSE igain
    /\ dgain' = IF a = DGAIN_ADR THEN x ELSE dgain
    /\ targetTemp' = IF a = TEMP_SETTING_ADR THEN x ELSE targetTemp
    /\ eeprom' = writeFloat(eeprom, x, a, SlotUnit(a))

setP(p) == SetValue(PGAIN_ADR, p)
setI(i) == SetValue(IGAIN_ADR, i)
setD(d) == SetValue(DGAIN_ADR, d)
setTargetTemp(t) == SetValue(TEMP_SETTING_ADR, t)

\* updateSerialInterface reads one of the characters P p I i D d T t
L_command(c) ==
    /\ pc = "serial"
    /\ SetValue(KeySlot(c), SetterArg(c))
    /\ info' = [op |-> "command", c |-> c]
    /\ UNCHANGED <<now, pc, iState, lastTemp, windupGaurd, delta, heatPower,
                   lastPIDTime, heaterVars, decoderVars, samplerVars, line, sent,
                   nsent, history>>

\* updateSerialInterface reads the character R: four setter calls in a row
L_reset ==
    /\ pc \in {"serial", "reset_i", "reset_d", "reset_t"}
    /\ IF pc = "serial" THEN setP(F(30)) /\ pc' = "reset_i"
       ELSE IF pc = "reset_i" THEN setI(F(0)) /\ pc' = "reset_d"
       ELSE IF pc = "reset_d" THEN setD(F(0)) /\ pc' = "reset_t"
       ELSE setTargetTemp(F(200 * Unit)) /\ pc' = "serial"
    /\ info' = [op |-> "command", c |-> "R"]
    /\ UNCHANGED <<now, iState, lastTemp, windupGaurd, delta, heatPower,
                   lastPIDTime, heaterVars, decoderVars, samplerVars, line, sent,
                   nsent, history>>

\* setupPID run again
P_setup ==
    /\ pc = "serial"
    /\ pgain' = readFloat(eeprom, PGAIN_ADR, 1)
    /\ igain' = readFloat(eeprom, IGAIN_ADR, 1)
    /\ dgain' = readFloat(eeprom, DGAIN_ADR, 1)
    /\ info' = [op |-> "setupPID"]
    /\ UNCHANGED <<now, pc, eeprom, targetTemp, iState, lastTemp, windupGaurd, delta,
                   heatPower, lastPIDTime, heaterVars, decoderVars, samplerVars,
                   line, sent, nsent, history>>

\* heatPower = updatePID(targetTemp, cur), PID_UPDATE_INTERVAL after the last
U_update(cur, limit) ==
    /\ pc = "serial"
    /\ now + PID_UPDATE_INTERVAL <= limit
    /\ now' = now + PID_UPDATE_INTERVAL
    /\ heatPower' = PIDOutput(targetTemp, cur)
    /\ iState' = PIDIState(targetTemp, cur)
    /\ lastTemp' = cur
    /\ windupGaurd' = PIDWindup
    /\ info' = [op |-> "updatePID", cur |-> cur, iState |-> iState,
                lastTemp |-> lastTemp]
    /\ UNCHANGED <<pc, eeprom, pgain, igain, dgain, targetTemp, delta, lastPIDTime,
                   heaterVars, decoderVars, samplerVars, line, sent, nsent, history>>

(***************************************************************************)
(* SpecPID: the PID module alone.  updatePID with any of TempSamples as    *)
(* the current temperature, the 'R' command and the commands that adjust   *)
(* the integral gain, in any order.  The commands keep the gain within     *)
(* TuneSpan steps of a value setup or 'R' can install.                     *)
(***************************************************************************)
TuneSpan == 1
PIDEnd == 600
TempSamples == {F(TempSentinel), Calibrate(4096), F(200 * Unit)}

Near(x, a) ==
    \/ ~IsNum(x)
    \/ \E e \in {EepromReset, EepromTuned} :
          /\ x.v - e[a].v <= TuneSpan * SlotUnit(a)
          /\ e[a].v - x.v <= TuneSpan * SlotUnit(a)

InitPID == \E ee \in {EepromErased, EepromReset, EepromTuned} : Setup(ee, 0, "serial", <<>>)
NextPID ==
    \/ \E c \in {"I", "i"} : Near(SetterArg(c), KeySlot(c)) /\ L_command(c)
    \/ L_reset
    \/ \E cur \in TempSamples : U_update(cur, PIDEnd)
SpecPID == InitPID /\ [][NextPID]_vars

(***************************************************************************)
(* SpecStore: the gains and the target temperature and their EEPROM slots  *)
(* under any sequence of serial commands, with setupPID run again at any   *)
(* point.                                                                  *)
(***************************************************************************)
InitStore == \E ee \in {EepromErased, EepromTuned} : Setup(ee, 0, "serial", <<>>)
NextStore ==
    \/ \E c \in Commands : Near(SetterArg(c), KeySlot(c)) /\ L_command(c)
    \/ L_reset
    \/ P_setup
SpecStore == InitStore /\ [][NextStore]_vars

(***************************************************************************)
(* SpecStale: the sensor code with no timeouts.  The sensor has started    *)
(* with an object frame and may send further frames; updateTempSensor is   *)
(* called over and over, the interrupt routine running between any two of  *)
(* its statements.                                                         *)
(***************************************************************************)
StaleFrames == 2

InitStale == Setup(EepromReset, 0, "ts_test", FrameObject)
NextStale ==
    \/ L_ts_test
    \/ Consume
    \/ L_ts_timeout
    \/ S_again
    \/ ClockEdge
    \/ \E f \in Frames : SensorSend(f, StaleFrames)
SpecStale == InitStale /\ [][NextStale]_vars

(***************************************************************************)
(* SpecStream: the sensor code with no timeouts under a continuous stream  *)
(* of well-formed frames (four data bytes, none 0x0D, then 0x0D): object   *)
(* frames and frames tagged 0x53 in turn.  updateTempSensor is called over *)
(* and over, the interrupt routine running between any two of its          *)
(* statements.                                                             *)
(***************************************************************************)
StreamFrames == 3

\* the i-th frame of the stream
StreamFrame(i) == IF i % 2 = 1 THEN FrameObject ELSE FrameOther

\* the four data bytes of a well-formed frame, as message[0..3] holds them
FrameData(f) == [i \in 0..3 |-> f[i + 1]]

InitStream == Setup(EepromReset, 0, "ts_test", StreamFrame(1))
NextStream ==
    \/ L_ts_test
    \/ Consume
    \/ L_ts_timeout
    \/ S_again
    \/ ClockEdge
    \/ SensorSend(StreamFrame(nsent + 1), StreamFrames)
SpecStream == InitStream /\ [][NextStream]_vars

(***************************************************************************)
(* SpecDecode: an object frame with any two data bytes is clocked out and  *)
(* then consumed by updateTempSensor.                                      *)
(***************************************************************************)
\* a statement of updateTempSensor, run after the sensor has finished
D_step == line = <<>> /\ (L_ts_test \/ L_ts_stamp \/ L_ts_tag1 \/ L_ts_hi \/ L_ts_lo)

InitDecode ==
    \E hi \in 0..255, mid \in 0..255 :
        Setup(EepromReset, 0, "ts_test", <<TagObject, hi, mid, 0, Terminator>>)
NextDecode == ClockEdge \/ D_step
SpecDecode == InitDecode /\ [][NextDecode]_vars

(***************************************************************************)
(* SpecReading: loop() while the sensor clocks out one object frame, the   *)
(* clock advancing by ReadingTick between iterations up to ReadingEnd.     *)
(***************************************************************************)
ReadingTick == 201
ReadingEnd == 1206

InitReading == Setup(EepromReset, 0, "serial", FrameObject)
NextReading ==
    \/ Cycle
    \/ L_ts_stamp \/ L_ts_tag1 \/ L_ts_hi \/ L_ts_lo \/ L_ts_clear
    \/ ClockEdge
    \/ (pc = "serial" /\ Tick(ReadingTick, ReadingEnd))
SpecReading == InitReading /\ [][NextReading]_vars

(***************************************************************************)
(* Properties                                                              *)
(***************************************************************************)

\* C1: whenever updateHeater() is about to be called in loop() with
\* consectutive_timeouts greater than 20, heatcycles is 0, whatever updatePID
\* returned in the same iteration.
C1_InterlockForcesZero ==
    (pc = "heater" /\ consectutive_timeouts > 20) => heatcycles = F(0)

C1_Witness ==
    /\ pc = "heater"
    /\ consectutive_timeouts > 20
    /\ ranPID
    /\ FGt(heatPower, F(0))
    /\ heatcycles = F(0)

\* C2: once the timeout count has exceeded 20 and as long as no message is
\* consumed, every updateHeater() call of loop() runs with heatcycles equal
\* to 0, however long the sensor stays silent.
C2_InterlockStays == (pc = "heater" /\ tripped) => heatcycles = F(0)

\* C3: heatcycles is a number between 0 and 1000 in every reachable state.
C3_Saturated ==
    /\ IsNum(heatcycles)
    /\ heatcycles.v >= 0
    /\ heatcycles.v <= 1000 * Unit

\* C4: with heatcycles 250 and updateHeater() called every millisecond, the
\* output is high exactly during the first 250 ms of each 1000 ms window
\* counted from the first call, the window in which the clock wraps included.
C4_DutyCycle ==
    pc = "t_wait" => (heaterState = 1 <=> ((now + HeaterTestLead) % 1000) < 250)

\* C5: the output goes from off to on only in an updateHeater() call made
\* when at least 1000 ms have passed since heatLastTime or the clock reads
\* less than heatLastTime; it goes from on to off only in an updateHeater()
\* call in which the time elapsed in the window is at least heatcycles; no
\* other step changes it.
C5_Transitions ==
    [][ /\ (heaterState = 0 /\ heaterState' = 1) =>
              /\ info'.op = "update" /\ now' = now
              /\ UGeConst(USub(now, heatLastTime), 1000) \/ ULt(now, heatLastTime)
        /\ (heaterState = 1 /\ heaterState' = 0) =>
              /\ info'.op = "update" /\ now' = now
              /\ UGeFloat(USub(now, heatLastTime'), heatcycles)
      ]_vars

\* the output is off after an updateHeater() call made in mid-window with
\* heatcycles above the time elapsed in the window
C5_Witness ==
    /\ info.op = "update"
    /\ info.at = now
    /\ heaterState = 0
    /\ IsNum(heatcycles)
    /\ now - heatLastTime > 0
    /\ now - heatLastTime < 1000
    /\ heatcycles.v > (now - heatLastTime) * Unit

\* C6: after any sequence of readBit() clock edges and updateTempSensor()
\* calls, nbytes never exceeds 4.
C6_NBytesAtMost4 == nbytes <= 4

\* C7: a clock edge whose bit is the 8th of a byte and completes 0x0D sets
\* message_waiting to 1 and nbytes to 0, whatever nbytes was.
C7_ShortFrame ==
    [][ ( /\ line # <<>>
          /\ line' = Tail(line)
          /\ nbits = 7
          /\ (hexbyte * 2 + Head(line)) % 256 = 13 )
        => (message_waiting' = 1 /\ nbytes' = 0) ]_vars

\* the terminator arrived after one data byte and raised the flag
C7_Witness ==
    /\ info.op = "readBit"
    /\ info.nbits = 7
    /\ info.byte = 13
    /\ info.nbytes = 1
    /\ message_waiting = 1
    /\ nbytes = 0

\* C8: from the reset decoder state, the 40 clock edges of four data bytes
\* (none 0x0D) and 0x0D, most significant bit first, leave the four bytes in
\* message[0..3], message_waiting = 1, nbytes = 0 and nbits = 0.
C8_FrameAssembled ==
    line = <<>> =>
        /\ \A i \in 0..3 : message[i] = sent[i + 1]
        /\ message_waiting = 1
        /\ nbytes = 0
        /\ nbits = 0

C8_Witness ==
    /\ line = <<>>
    /\ sent = <<76, 26, 134, 255, 13>>
    /\ message = (0 :> 76) @@ (1 :> 26) @@ (2 :> 134) @@ (3 :> 255)
    /\ message_waiting = 1

\* C9: with no clock edges, the timeout branch of updateTempSensor is taken
\* only when more than 1000 ms have passed since last_time; the branch leaves
\* nbits, nbytes, hexbyte, message_waiting and byte_ready at 0, last_time at
\* the current time and consectutive_timeouts one higher (as an unsigned int);
\* the count never exceeds the number of whole 1001 ms periods elapsed.
C9_TimeoutPolicy ==
    [][ /\ (pc = "ts_timeout" /\ pc' = "to_nbits") => now - last_time > 1000
        /\ (pc = "to_stamp" /\ pc' = "pid_wrap") =>
              /\ nbits' = 0 /\ nbytes' = 0 /\ hexbyte' = 0
              /\ message_waiting' = 0 /\ byte_ready' = 0
              /\ last_time' = now
              /\ consectutive_timeouts' = (consectutive_timeouts + 1) % 65536
        /\ consectutive_timeouts' * 1001 <= now'
      ]_vars

\* two timeouts have been counted, the first of them after the sensor had
\* stopped in the middle of its second byte
C9_Witness ==
    /\ pc = "pid_wrap"
    /\ consectutive_timeouts = 2
    /\ last_time = now
    /\ read_byte = TagObject
    /\ Len(line) = 16 - PartialBits
    /\ nbits = 0 /\ nbytes = 0 /\ byte_ready = 0

\* C10: as long as the sensor has sent no frame tagged 0x4c or 0x66, temp
\* stays -127.0 and consectutive_timeouts never decreases.
C10_NoValidFrame ==
    [][ (nsent' <= 1 /\ (sent' = <<>> \/ sent'[1] \notin {76, 102})) =>
            /\ temp' = F((0 - 127) * Unit)
            /\ consectutive_timeouts' >= consectutive_timeouts
      ]_vars

\* C11: when igain is exactly 0, updatePID does not evaluate
\* WINDUP_GUARD_GAIN / igain: no call leaves the quotient of a division by
\* zero in windupGaurd.
C11_NoDivisionByZero == igain = F(0) => windupGaurd.k # "inf"

\* C12: after every updatePID call made with igain > 0, iState lies between
\* -(100 / igain) and 100 / igain.
C12_WindupClamp ==
    [][ (now' # now /\ IsNum(igain) /\ igain.v > 0) =>
            /\ IsNum(iState')
            /\ iState'.v * igain.v <= 100 * Unit
            /\ iState'.v * igain.v >= 0 - 100 * Unit
      ]_vars

\* C13: every updatePID(target, current) call returns
\* pgain*(target - current) + igain*iState - dgain*(current - lastTemp), with
\* iState the accumulator after this call's error is added and clamped and
\* lastTemp the current temperature of the previous call; lastTemp equals
\* current when the call returns.
C13_PIDOutput ==
    [][ now' # now =>
            /\ lastTemp' = info'.cur
            /\ heatPower' =
                  FSub(FAdd(FMul(pgain, FSub(targetTemp, info'.cur)),
                            FMul(igain, iState')),
                       FMul(dgain, FSub(info'.cur, lastTemp)))
            /\ (IsNum(igain) /\ igain.v > 0 /\ IsNum(iState) /\ IsNum(targetTemp)) =>
                  LET sum == iState.v + targetTemp.v - info'.cur.v
                      bound == (100 * Unit) \div igain.v
                  IN  iState' = F(IF sum > bound THEN bound
                                  ELSE IF sum < 0 - bound THEN 0 - bound
                                  ELSE sum)
      ]_vars

\* gains 2, 1, 1 and target -125: the call with current temperature 200
\* after a first call clamps the accumulator at -100 and subtracts the
\* derivative term
C13_Witness ==
    /\ info.op = "updatePID"
    /\ pgain = F(2) /\ igain = F(1) /\ dgain = F(1)
    /\ iState = F(0 - 100 * Unit)
    /\ lastTemp = F(200 * Unit)
    /\ info.lastTemp = F(TempSentinel)
    /\ heatPower = F(2 * (0 - 325) * Unit - 100 * Unit - 327 * Unit)

\* C14: each of pgain, igain, dgain and targetTemp equals the float held in
\* the four bytes of its own EEPROM slot, a setter leaves the bytes of the
\* other slots alone, and setupPID run again reproduces the gains.
C14_RoundTrip ==
    [][ \A a \in Slots :
            /\ Memory(a)' = readFloat(eeprom', a, SlotUnit(a))
            /\ Memory(a)' = Memory(a) =>
                  \A b \in a..(a + 3) : eeprom'[b] = eeprom[b]
            /\ info'.op = "setupPID" => Memory(a)' = Memory(a)
      ]_vars

\* setupPID has run again after the gains were changed to 31.0 and -1.0
C14_Witness ==
    /\ info.op = "setupPID"
    /\ pgain = F(31)
    /\ igain = F(0 - 1)
    /\ <<eeprom[0], eeprom[1], eeprom[2], eeprom[3]>> = <<0, 0, 248, 65>>
    /\ <<eeprom[4], eeprom[5], eeprom[6], eeprom[7]>> = <<0, 0, 128, 191>>
    /\ targetTemp = F(201 * Unit)

\* C15: when updateTempSensor finds message_waiting equal to 1 it sets
\* last_time to the current time and consectutive_timeouts to 0 and goes on
\* to clear message_waiting, whatever the tag message[0]; temp changes only
\* for a tag 0x4c and ambient only for a tag 0x66, the one never with the
\* other.
C15_FrameConsumed ==
    [][ /\ (pc = "ts_test" /\ pc' # pc /\ message_waiting = 1) => pc' = "ts_stamp"
        /\ (pc = "ts_stamp" /\ pc' # pc) =>
              (last_time' = now /\ consectutive_timeouts' = 0)
        /\ (pc \in Consuming \ {"ts_clear"} /\ pc' # pc) => pc' \in Consuming
        /\ (pc = "ts_clear" /\ pc' # pc) => message_waiting' = 0
        /\ temp' # temp => (pc = "ts_obj_lo" /\ message[0] = 76 /\ ambient' = ambient)
        /\ ambient' # ambient => (pc = "ts_amb_lo" /\ message[0] = 102 /\ temp' = temp)
      ]_vars

\* the one-byte ambient frame 66 0d has been consumed after a timeout
C15_Witness ==
    /\ pc = "ts_timeout"
    /\ message_waiting = 0
    /\ now = last_time
    /\ now > 1000
    /\ consectutive_timeouts = 0
    /\ message[0] = 102
    /\ ambient = F(0 - 21852)
    /\ temp = F((0 - 127) * Unit)

\* C16: while updateTempSensor consumes a message whose tag is neither 0x4c
\* nor 0x66, temp and ambient keep their values, no decoding statement is
\* reached and the timeout count is not raised.
C16_MalformedDiscarded ==
    [][ (pc \in Consuming /\ message[0] \notin {76, 102}) =>
            /\ temp' = temp
            /\ ambient' = ambient
            /\ consectutive_timeouts' <= consectutive_timeouts
            /\ pc' \in {"ts_stamp", "ts_tag1", "ts_tag2", "ts_clear", "ts_timeout"}
      ]_vars

\* the frame tagged 0x53 has been consumed after an object frame: the
\* object reading -17.15 is still in temp
C16_Witness ==
    /\ pc = "ts_timeout"
    /\ message_waiting = 0
    /\ line = <<>>
    /\ message[0] = 83
    /\ temp = F(5 * 4096 - 21852)
    /\ ambient = F(0)

\* C17: once a frame with tag 0x4c has been decoded, temp is M/16 - 273.15
\* with M = message[1]*256 + message[2], for all values of the two bytes.
C17_Decoded ==
    (pc = "ts_clear" /\ message[0] = 76) =>
        temp = F(5 * (message[1] * 256 + message[2]) - 21852)

\* C18 as claimed: getLastTemp() returns the value getFreshTemp() would
\* return at that moment, the current temp.
C18_SameAsFresh == getLastTemp = temp

\* C18 as amended: getLastTemp() returns the value the most recent
\* getFreshTemp() call returned: it changes only in the step of loop() that
\* calls getFreshTemp(), to the temp of that moment, and is 0 before.
C18_Cached ==
    [][ getLastTemp' = IF pc = "pid_test" /\ lastPIDTime' # lastPIDTime
                       THEN temp ELSE getLastTemp ]_vars

\* the PID ran before the frame was decoded: getLastTemp() still returns
\* the -127.0 of the last getFreshTemp() while temp is -17.15
C18_Witness ==
    /\ getLastTemp = F((0 - 127) * Unit)
    /\ lastTemp = F((0 - 127) * Unit)
    /\ temp = F(5 * 4096 - 21852)

\* C19: from the statement after the test of message_waiting up to the
\* statement that clears it, no step changes message[0..3] or nbytes.
C19_NoTornRead ==
    [][ (pc \in Consuming) => (message' = message /\ nbytes' = nbytes) ]_vars

\* the first byte of the next frame was completed while updateTempSensor
\* was decoding the object frame, and the object frame is intact
C19_Witness ==
    /\ pc = "ts_obj_lo"
    /\ info.op = "readBit" /\ info.nbits = 7 /\ info.waiting = 1 /\ info.byte = 83
    /\ Len(line) = 32
    /\ message = (0 :> 76) @@ (1 :> 16) @@ (2 :> 0) @@ (3 :> 92)
    /\ nbytes = 0

\* C20: an updateHeater() call made with heatcycles equal to 0 returns with
\* the output off, and if it begins a window (1000 ms elapsed or the clock
\* below heatLastTime) the output was switched on first.
C20_ZeroPower ==
    [][ (info'.op = "update" /\ now' = now /\ heatcycles = F(0)) =>
            /\ heaterState' = 0
            /\ (UGeConst(USub(now, heatLastTime), 1000) \/ ULt(now, heatLastTime)) =>
                  (info'.pin = 1 /\ heatLastTime' = now)
      ]_vars

\* a call with heatcycles 0 has just begun a window: the output was
\* switched on and is off
C20_Witness ==
    /\ info.op = "update"
    /\ info.at = now
    /\ info.pin = 1
    /\ heatcycles = F(0)
    /\ heatLastTime = now
    /\ heaterState = 0

\* C21: a message_waiting flag raised by readBit is cleared by the main
\* context only at the end of the consumption of the message (the
\* statement after the tag tests); the statements of the timeout branch
\* never take the flag from 1 to 0.
C21_NoFrameLost ==
    [][ (message_waiting = 1 /\ message_waiting' = 0) => pc = "ts_clear" ]_vars

\* C22: under a continuous stream of well-formed frames, every message
\* updateTempSensor consumes holds in message[0..3] the four data bytes of
\* one of the frames the sensor has sent, in their order.
C22_FrameIntegrity ==
    (pc \in Consuming) => \E i \in 1..nsent : message = FrameData(StreamFrame(i))

=============================================================================
